---- MODULE Spec2Model ----
(***************************************************************************)
(* Order / event-registration status machines and the event seat counter  *)
(* of the storefront API: the admin resolvers (status, details, order    *)
(* discounts and item quantities), the                                    *)
(* user resolvers (registerForEvent, cancelRegistration, createOrder,     *)
(* cancelOrder) and the rows they read and write.                         *)
(*                                                                         *)
(* A row is a record; a nullable timestamp column holds Null or the clock *)
(* value of the request that wrote it.  Every database call of a handler  *)
(* is atomic; the handlers themselves are modelled twice: as one step     *)
(* (requests that do not overlap) and, for adminUpdateRegistrationStatus, *)
(* call by call (requests that interleave between two awaits).            *)
(***************************************************************************)
EXTENDS Integers, Sequences, FiniteSets, TLC

VARIABLES now, event, registrations, order, ordered_products, last, inflight

vars == <<now, event, registrations, order, ordered_products, last, inflight>>

(* ------------------------------ bounds -------------------------------- *)

\* total_seats of the one event of the model
TotalSeats == 2

\* largest seat count a request asks for (input.seats, input.seatsReserved)
MaxSeats == 2

\* available_seats is explored in -SeatSlack .. TotalSeats + SeatSlack
SeatSlack == 1

\* the clock runs 1 .. MaxTime
MaxTime == 2

\* discounts asked for run -1 .. MaxDiscount (and the amounts of AmountInputs)
MaxDiscount == 4

\* quantities asked for run 0 .. MaxQuantity (and the ones of QuantityInputs)
MaxQuantity == 1

\* item ids asked for run 1 .. MaxItemId; an order has fewer items
MaxItemId == 2

\* users; a user has at most one registration per event (unique
\* event_id_user_id), so a registration is named by its user
Users == {"u1", "u2"}

\* the user of the time-stamp specifications
OneUser == {"u1"}

(* ------------------------------ helpers ------------------------------- *)

Null == 0

NoRow == [absent |-> TRUE]

\* Array.prototype.indexOf: 0-based, -1 when absent
IndexOf(arr, x) ==
  IF \E i \in 1..Len(arr) : arr[i] = x
  THEN (CHOOSE i \in 1..Len(arr) : arr[i] = x) - 1
  ELSE -1

\* Array.prototype.slice(from, to): 0-based, to exclusive, clipped to the length
Slice(arr, from, to) ==
  LET hi == IF to < Len(arr) THEN to ELSE Len(arr)
      n  == IF hi > from THEN hi - from ELSE 0
  IN [k \in 1..n |-> arr[from + k]]

\* updateData[field] = value
SetField(data, field, value) ==
  [f \in DOMAIN data \cup {field} |-> IF f = field THEN value ELSE data[f]]

\* prisma update({data}): the columns named in data are written, the rest kept
ApplyUpdate(row, data) ==
  [f \in DOMAIN row |-> IF f \in DOMAIN data THEN data[f] ELSE row[f]]

\* the last request and its response: the mutation called, its argument (the
\* status, seat count, fee or id asked for), the status the handler read from
\* the row ("none" when it read none), and the {success, error} it returned
Response(op, arg, was, success, error) ==
  [op |-> op, arg |-> arg, was |-> was, success |-> success, error |-> error]

(* -------------------- registration status timeline -------------------- *)

EventRegistrationStatus ==
  {"PENDING", "APPROVED", "REJECTED", "PAID", "CONFIRMED", "CANCELLED"}

\* the status argument is a String: the members and one string that is none
RegistrationStatusStrings == EventRegistrationStatus \cup {"UNKNOWN"}

RegTimestampField ==
  {"request_at", "approved_at", "paid_at", "confirmed_at", "cancelled_at"}

\* null for REJECTED, undefined for a string that is no member of the enum
\* (both falsy: "none")
REG_STATUS_TIMESTAMP_FIELDS(status) ==
  CASE status = "PENDING"   -> "request_at"
    [] status = "APPROVED"  -> "approved_at"
    [] status = "REJECTED"  -> "none"
    [] status = "PAID"      -> "paid_at"
    [] status = "CONFIRMED" -> "confirmed_at"
    [] status = "CANCELLED" -> "cancelled_at"
    [] OTHER                -> "none"

REG_MAIN_FLOW == <<"PENDING", "APPROVED", "PAID", "CONFIRMED">>

regGetLaterStatuses(status) ==
  LET statusIndex == IndexOf(REG_MAIN_FLOW, status)
  IN IF statusIndex = -1 THEN <<>>
     ELSE Slice(REG_MAIN_FLOW, statusIndex + 1, Len(REG_MAIN_FLOW))

regGetIntermediateStatuses(currentStatus, newStatus) ==
  LET currentIndex == IndexOf(REG_MAIN_FLOW, currentStatus)
      newIndex     == IndexOf(REG_MAIN_FLOW, newStatus)
  IN IF currentIndex = -1 \/ newIndex = -1 \/ newIndex <= currentIndex
     THEN <<>>
     ELSE Slice(REG_MAIN_FLOW, currentIndex + 1, newIndex + 1)

\* for (const s of statuses) { f = FIELDS[s]; if (f) data[f] = value }
RECURSIVE RegSetAll(_, _, _)
RegSetAll(data, statuses, value) ==
  IF statuses = <<>> THEN data
  ELSE LET field == REG_STATUS_TIMESTAMP_FIELDS(Head(statuses))
       IN RegSetAll(IF field # "none" THEN SetField(data, field, value) ELSE data,
                    Tail(statuses), value)

\* the updateData adminUpdateRegistrationStatus builds for a registration in
\* currentStatus, a different newStatus, at time t
RegistrationUpdateData(currentStatus, newStatus, t) ==
  LET currentMainIndex == IndexOf(REG_MAIN_FLOW, currentStatus)
      newMainIndex     == IndexOf(REG_MAIN_FLOW, newStatus)
      d0 == [status |-> newStatus]
      \* moving forward: every intermediate timestamp
      d1 == IF newMainIndex > currentMainIndex /\ currentMainIndex # -1
            THEN RegSetAll(d0, regGetIntermediateStatuses(currentStatus, newStatus), t)
            ELSE d0
      \* the timestamp of the new status
      timestampField == REG_STATUS_TIMESTAMP_FIELDS(newStatus)
      d2 == IF timestampField # "none"
               /\ (timestampField \notin DOMAIN d1 \/ d1[timestampField] = Null)
            THEN SetField(d1, timestampField, t)
            ELSE d1
      \* moving backwards in the main flow: later timestamps cleared
      d3 == IF newMainIndex # -1 /\ currentMainIndex # -1
               /\ newMainIndex < currentMainIndex
            THEN RegSetAll(d2, regGetLaterStatuses(newStatus), Null)
            ELSE d2
      \* back to the main flow from a terminal state
      d4 == IF newMainIndex # -1 /\ currentStatus = "CANCELLED"
            THEN SetField(d3, "cancelled_at", Null)
            ELSE d3
      d5 == IF newMainIndex # -1 /\ currentStatus = "REJECTED"
            THEN SetField(SetField(SetField(d4, "approved_at", Null),
                                   "paid_at", Null), "confirmed_at", Null)
            ELSE d4
  IN d5

(* --------------------------- seat inventory --------------------------- *)

wasConfirmed(currentStatus) == currentStatus \in {"CONFIRMED", "PAID"}

willBeConfirmed(newStatus) == newStatus \in {"CONFIRMED", "PAID"}

\* mutant: seats are returned whenever a confirmed registration changes status
ReturnsSeats_AnyTarget(currentStatus, newStatus) ==
  wasConfirmed(currentStatus)

\* confirmed -> cancelled/rejected: event.update increment seats_reserved
ReturnsSeats(currentStatus, newStatus) ==
  wasConfirmed(currentStatus) /\ newStatus \in {"CANCELLED", "REJECTED"}

\* cancelled/rejected -> confirmed: event.update decrement seats_reserved
DeductsSeats(currentStatus, newStatus) ==
  /\ ~wasConfirmed(currentStatus)
  /\ willBeConfirmed(newStatus)
  /\ currentStatus \in {"CANCELLED", "REJECTED"}

\* the counter stays in the explored range
InSeatRange(n) == n >= 0 - SeatSlack /\ n <= TotalSeats + SeatSlack

Idle == [pc |-> "idle"]

(* -------------------------------- Init -------------------------------- *)

Init ==
  /\ now = 1
  /\ event = [total_seats |-> TotalSeats, available_seats |-> TotalSeats]
  /\ registrations = [u \in Users |-> NoRow]
  /\ order = NoRow
  /\ ordered_products = <<>>
  /\ last = Response("none", "none", "none", TRUE, "none")
  /\ inflight = Idle

\* new Date() of a later request
Tick ==
  /\ now < MaxTime
  /\ now' = now + 1
  /\ UNCHANGED <<event, registrations, order, ordered_products, last, inflight>>

(* ----------------------- event registrations -------------------------- *)

registerForEvent(userId, seats) ==
  /\ IF registrations[userId] # NoRow
     THEN /\ last' = Response("registerForEvent", seats, "none", FALSE,
                              "Already registered for this event")
          /\ UNCHANGED <<event, registrations>>
     ELSE IF event.available_seats < seats
     THEN /\ last' = Response("registerForEvent", seats, "none", FALSE,
                              "Not enough seats available")
          /\ UNCHANGED <<event, registrations>>
     ELSE /\ InSeatRange(event.available_seats - seats)
          /\ registrations' = [registrations EXCEPT ![userId] =
               [status |-> "PENDING", seats_reserved |-> seats,
                request_at |-> now, approved_at |-> Null, paid_at |-> Null,
                confirmed_at |-> Null, cancelled_at |-> Null]]
          /\ event' = [event EXCEPT !.available_seats = @ - seats]
          /\ last' = Response("registerForEvent", seats, "none", TRUE, "none")
  /\ UNCHANGED <<now, order, ordered_products, inflight>>

cancelRegistration(userId, registrationId) ==
  /\ IF registrationId # userId \/ registrations[registrationId] = NoRow
     THEN /\ last' = Response("cancelRegistration", registrationId, "none", FALSE,
                              "Registration not found")
          /\ UNCHANGED <<event, registrations>>
     ELSE /\ InSeatRange(event.available_seats
                         + registrations[registrationId].seats_reserved)
          /\ registrations' = [registrations EXCEPT ![registrationId] = NoRow]
          /\ event' = [event EXCEPT !.available_seats =
                         @ + registrations[registrationId].seats_reserved]
          /\ last' = Response("cancelRegistration", registrationId, "none", TRUE, "none")
  /\ UNCHANGED <<now, order, ordered_products, inflight>>

\* the event.update calls of adminUpdateRegistrationStatus, as one change
SeatAdjustment(currentStatus, newStatus, seats) ==
  (IF ReturnsSeats(currentStatus, newStatus) THEN seats ELSE 0)
  - (IF DeductsSeats(currentStatus, newStatus) THEN seats ELSE 0)

adminUpdateRegistrationStatus(registrationId, newStatus) ==
  /\ LET registration == registrations[registrationId] IN
     IF registration = NoRow
     THEN /\ last' = Response("adminUpdateRegistrationStatus",
                              newStatus, "none", FALSE, "Registration not found")
          /\ UNCHANGED <<event, registrations>>
     ELSE IF registration.status = newStatus
     THEN /\ last' = Response("adminUpdateRegistrationStatus",
                              newStatus, registration.status, TRUE, "none")
          /\ UNCHANGED <<event, registrations>>
     ELSE IF newStatus \notin EventRegistrationStatus
     \* eventRegistration.update refuses a status outside the enum: it
     \* throws, and tryCatchAsync rethrows it as a GraphQLError
     THEN /\ last' = Response("adminUpdateRegistrationStatus",
                              newStatus, registration.status, FALSE, "GraphQLError")
          /\ UNCHANGED <<event, registrations>>
     ELSE LET adj == SeatAdjustment(registration.status, newStatus,
                                    registration.seats_reserved)
          IN /\ InSeatRange(event.available_seats + adj)
             /\ event' = [event EXCEPT !.available_seats = @ + adj]
             /\ registrations' = [registrations EXCEPT ![registrationId] =
                  ApplyUpdate(registration,
                    RegistrationUpdateData(registration.status, newStatus, now))]
             /\ last' = Response("adminUpdateRegistrationStatus",
                                 newStatus, registration.status, TRUE, "none")
  /\ UNCHANGED <<now, order, ordered_products, inflight>>

\* input.price and input.discount are validated and written to columns no
\* modelled operation reads; only their sign is an input here
adminUpdateRegistrationDetails(registrationId, price, discount, seatsReserved) ==
  /\ LET registration == registrations[registrationId]
         Fail(error) ==
           /\ last' = Response("adminUpdateRegistrationDetails",
                               seatsReserved, "none", FALSE, error)
           /\ UNCHANGED <<event, registrations>>
     IN
     IF price < 0 THEN Fail("Price cannot be negative")
     ELSE IF discount < 0 THEN Fail("Discount cannot be negative")
     ELSE IF seatsReserved < 1 THEN Fail("Must reserve at least 1 seat")
     ELSE IF registration = NoRow THEN Fail("Registration not found")
     ELSE LET seatsDiff == seatsReserved - registration.seats_reserved
              isConfirmedOrPaid == registration.status \in {"CONFIRMED", "PAID"}
          IN IF seatsDiff # 0 /\ isConfirmedOrPaid /\ seatsDiff > 0
                /\ event.available_seats < seatsDiff
             THEN Fail("Not enough available seats")
             ELSE /\ event' = IF seatsDiff # 0 /\ isConfirmedOrPaid
                              THEN [event EXCEPT !.available_seats = @ - seatsDiff]
                              ELSE event
                  /\ InSeatRange(event'.available_seats)
                  /\ registrations' = [registrations EXCEPT
                       ![registrationId].seats_reserved = seatsReserved]
                  /\ last' = Response("adminUpdateRegistrationDetails",
                                      seatsReserved, "none", TRUE, "none")
  /\ UNCHANGED <<now, order, ordered_products, inflight>>

(* ------- adminUpdateRegistrationStatus, one database call a step ------ *)

\* findUnique, the early returns and the updateData built before the first
\* write; the handler then awaits event.update (when seats move) or goes
\* straight to eventRegistration.update
adminStatus_findUnique(registrationId, newStatus) ==
  /\ inflight = Idle
  /\ LET registration == registrations[registrationId] IN
     IF registration = NoRow
     THEN /\ last' = Response("adminUpdateRegistrationStatus",
                              newStatus, "none", FALSE, "Registration not found")
          /\ UNCHANGED inflight
     ELSE IF registration.status = newStatus
     THEN /\ last' = Response("adminUpdateRegistrationStatus",
                              newStatus, registration.status, TRUE, "none")
          /\ UNCHANGED inflight
     ELSE /\ inflight' =
               [pc |-> IF ReturnsSeats(registration.status, newStatus)
                          \/ DeductsSeats(registration.status, newStatus)
                       THEN "event.update" ELSE "eventRegistration.update",
                registrationId |-> registrationId,
                newStatus |-> newStatus,
                registration |-> [status |-> registration.status,
                                  seats_reserved |-> registration.seats_reserved],
                updateData |-> RegistrationUpdateData(registration.status, newStatus, now)]
          /\ UNCHANGED last
  /\ UNCHANGED <<now, event, registrations, order, ordered_products>>

\* await ctx.prisma.event.update: increment or decrement by the
\* seats_reserved read by findUnique
adminStatus_eventUpdate ==
  /\ inflight.pc = "event.update"
  /\ LET adj == SeatAdjustment(inflight.registration.status, inflight.newStatus,
                               inflight.registration.seats_reserved)
     IN /\ InSeatRange(event.available_seats + adj)
        /\ event' = [event EXCEPT !.available_seats = @ + adj]
  /\ inflight' = [inflight EXCEPT !.pc = "eventRegistration.update"]
  /\ UNCHANGED <<now, registrations, order, ordered_products, last>>

\* await ctx.prisma.eventRegistration.update: throws when the row is gone or
\* the status is outside the enum, and tryCatchAsync rethrows it as a
\* GraphQLError
adminStatus_registrationUpdate ==
  /\ inflight.pc = "eventRegistration.update"
  /\ IF \/ registrations[inflight.registrationId] = NoRow
        \/ inflight.newStatus \notin EventRegistrationStatus
     THEN /\ last' = Response("adminUpdateRegistrationStatus", inflight.newStatus,
                              inflight.registration.status, FALSE, "GraphQLError")
          /\ UNCHANGED registrations
     ELSE /\ registrations' = [registrations EXCEPT ![inflight.registrationId] =
                                 ApplyUpdate(@, inflight.updateData)]
          /\ last' = Response("adminUpdateRegistrationStatus", inflight.newStatus,
                              inflight.registration.status, TRUE, "none")
  /\ inflight' = Idle
  /\ UNCHANGED <<now, event, order, ordered_products>>

(* ------------------------- order status timeline --------------------- *)

OrderStatus ==
  {"PENDING", "PROCESSING", "PAID", "SHIPPED", "DELIVERED",
   "CANCELLED", "RETURNED", "REFUNDED"}

\* the status argument is a String: the members and one string that is none
OrderStatusStrings == OrderStatus \cup {"UNKNOWN"}

ORDER_STATUS_SEQUENCE ==
  <<"PENDING", "PROCESSING", "PAID", "SHIPPED", "DELIVERED",
    "CANCELLED", "RETURNED", "REFUNDED">>

OrderTimestampField ==
  {"request_at", "approved_at", "paid_at", "shipped_at", "delivered_at",
   "cancelled_at", "returned_at", "refunded_at"}

\* undefined ("none") for a string that is no member of the enum
ORDER_STATUS_TIMESTAMP_FIELDS(status) ==
  CASE status = "PENDING"    -> "request_at"
    [] status = "PROCESSING" -> "approved_at"
    [] status = "PAID"       -> "paid_at"
    [] status = "SHIPPED"    -> "shipped_at"
    [] status = "DELIVERED"  -> "delivered_at"
    [] status = "CANCELLED"  -> "cancelled_at"
    [] status = "RETURNED"   -> "returned_at"
    [] status = "REFUNDED"   -> "refunded_at"
    [] OTHER                 -> "none"

\* PENDING to DELIVERED
ORDER_MAIN_FLOW == Slice(ORDER_STATUS_SEQUENCE, 0, 5)

\* mutant: a status outside the main flow has the whole main flow after it
orderGetLaterStatuses_Terminal(status) ==
  LET statusIndex == IndexOf(ORDER_MAIN_FLOW, status)
  IN IF statusIndex # -1
     THEN Slice(ORDER_MAIN_FLOW, statusIndex + 1, Len(ORDER_MAIN_FLOW))
     ELSE ORDER_MAIN_FLOW

\* mutant: no status has a later one
orderGetLaterStatuses_None(status) == <<>>

orderGetLaterStatuses(status) ==
  LET statusIndex == IndexOf(ORDER_MAIN_FLOW, status)
  IN IF statusIndex # -1
     THEN Slice(ORDER_MAIN_FLOW, statusIndex + 1, Len(ORDER_MAIN_FLOW))
     ELSE <<>>

\* mutant: only the new status, none of the statuses skipped over
orderGetIntermediateStatuses_OnlyNew(currentStatus, newStatus) ==
  LET newIndex == IndexOf(ORDER_MAIN_FLOW, newStatus)
  IN IF newIndex = -1 THEN <<>> ELSE Slice(ORDER_MAIN_FLOW, newIndex, newIndex + 1)

orderGetIntermediateStatuses(currentStatus, newStatus) ==
  LET currentIndex == IndexOf(ORDER_MAIN_FLOW, currentStatus)
      newIndex     == IndexOf(ORDER_MAIN_FLOW, newStatus)
  IN IF currentIndex = -1 \/ newIndex = -1 \/ newIndex <= currentIndex
     THEN <<>>
     ELSE Slice(ORDER_MAIN_FLOW, currentIndex + 1, newIndex + 1)

\* for (const s of statuses) { f = FIELDS[s]; if (f) data[f] = value }
RECURSIVE OrderSetAll(_, _, _)
OrderSetAll(data, statuses, value) ==
  IF statuses = <<>> THEN data
  ELSE LET field == ORDER_STATUS_TIMESTAMP_FIELDS(Head(statuses))
       IN OrderSetAll(IF field # "none" THEN SetField(data, field, value) ELSE data,
                      Tail(statuses), value)

\* the updateData adminUpdateOrderStatus builds for an order in
\* currentStatus, a different newStatus, at time t
OrderUpdateData(currentStatus, newStatus, t) ==
  LET currentIndex == IndexOf(ORDER_STATUS_SEQUENCE, currentStatus)
      newIndex     == IndexOf(ORDER_STATUS_SEQUENCE, newStatus)
      d0 == [status |-> newStatus]
      \* moving forward: every intermediate timestamp
      d1 == IF newIndex > currentIndex
            THEN OrderSetAll(d0, orderGetIntermediateStatuses(currentStatus, newStatus), t)
            ELSE d0
      \* the timestamp of the new status
      timestampField == ORDER_STATUS_TIMESTAMP_FIELDS(newStatus)
      d2 == IF timestampField # "none"
               /\ (timestampField \notin DOMAIN d1 \/ d1[timestampField] = Null)
            THEN SetField(d1, timestampField, t)
            ELSE d1
      \* moving backwards: later timestamps cleared
      d3 == IF newIndex < currentIndex
            THEN OrderSetAll(d2, orderGetLaterStatuses(newStatus), Null)
            ELSE d2
      \* and the terminal timestamps, when going back to the main flow
      d4 == IF newIndex < currentIndex /\ newIndex < 5
            THEN SetField(SetField(SetField(d3, "cancelled_at", Null),
                                   "returned_at", Null), "refunded_at", Null)
            ELSE d3
  IN d4

(* ------------------------------- orders ------------------------------- *)

RECURSIVE SumOver(_, _)
\* arr.reduce((sum, x) => sum + F(x), 0), F given as the sequence of its values
SumOver(values, n) == IF n = 0 THEN 0 ELSE SumOver(values, n - 1) + values[n]

\* the model holds one order: checkout happens once.  The discount columns
\* are not set by createOrder and start at 0.
createOrder(userId, cartItems, shippingFee) ==
  /\ order = NoRow
  /\ IF Len(cartItems) = 0
     THEN /\ last' = Response("createOrder", shippingFee, "none", FALSE, "Cart is empty")
          /\ UNCHANGED <<order, ordered_products>>
     ELSE LET subtotal == SumOver([i \in 1..Len(cartItems) |->
                                     cartItems[i].price * cartItems[i].quantity],
                                  Len(cartItems))
              total == subtotal + shippingFee
          IN /\ order' = [user_id |-> userId, shipping_fee |-> shippingFee,
                          subtotal |-> subtotal, discount |-> 0, total |-> total,
                          status |-> "PENDING", request_at |-> now,
                          approved_at |-> Null, paid_at |-> Null,
                          shipped_at |-> Null, delivered_at |-> Null,
                          cancelled_at |-> Null, returned_at |-> Null,
                          refunded_at |-> Null]
             /\ ordered_products' = [i \in 1..Len(cartItems) |->
                  [quantity |-> cartItems[i].quantity,
                   price |-> cartItems[i].price, discount |-> 0]]
             /\ last' = Response("createOrder", shippingFee, "none", TRUE, "none")
  /\ UNCHANGED <<now, event, registrations, inflight>>

cancelOrder(userId) ==
  /\ IF order = NoRow \/ order.user_id # userId
     THEN /\ last' = Response("cancelOrder", userId, "none", FALSE, "Order not found")
          /\ UNCHANGED order
     ELSE IF order.status # "PROCESSING"
     THEN /\ last' = Response("cancelOrder", userId, "none", FALSE,
                              "Only processing orders can be cancelled")
          /\ UNCHANGED order
     ELSE /\ order' = ApplyUpdate(order, [status |-> "CANCELLED", cancelled_at |-> now])
          /\ last' = Response("cancelOrder", userId, "none", TRUE, "none")
  /\ UNCHANGED <<now, event, registrations, ordered_products, inflight>>

\* mutant: a request for an order that is not stored is answered as a success
adminUpdateOrderStatus_NotFoundSucceeds(newStatus) ==
  /\ IF order = NoRow
     THEN /\ last' = Response("adminUpdateOrderStatus", newStatus, "none", TRUE, "none")
          /\ UNCHANGED order
     ELSE IF order.status = newStatus
     THEN /\ last' = Response("adminUpdateOrderStatus", newStatus, order.status, TRUE, "none")
          /\ UNCHANGED order
     ELSE IF newStatus \notin OrderStatus
     THEN /\ last' = Response("adminUpdateOrderStatus", newStatus, order.status, FALSE,
                              "GraphQLError")
          /\ UNCHANGED order
     ELSE /\ order' = ApplyUpdate(order, OrderUpdateData(order.status, newStatus, now))
          /\ last' = Response("adminUpdateOrderStatus", newStatus, order.status, TRUE, "none")
  /\ UNCHANGED <<now, event, registrations, ordered_products, inflight>>

\* mutant: no early return when the order already has the status asked for
adminUpdateOrderStatus_NoEarlyReturn(newStatus) ==
  /\ IF order = NoRow
     THEN /\ last' = Response("adminUpdateOrderStatus", newStatus, "none", FALSE,
                              "Order not found")
          /\ UNCHANGED order
     ELSE IF newStatus \notin OrderStatus
     \* productOrder.update refuses a status outside the enum: it throws, and
     \* tryCatchAsync rethrows it as a GraphQLError
     THEN /\ last' = Response("adminUpdateOrderStatus", newStatus, order.status, FALSE,
                              "GraphQLError")
          /\ UNCHANGED order
     ELSE /\ order' = ApplyUpdate(order, OrderUpdateData(order.status, newStatus, now))
          /\ last' = Response("adminUpdateOrderStatus", newStatus, order.status, TRUE, "none")
  /\ UNCHANGED <<now, event, registrations, ordered_products, inflight>>

adminUpdateOrderStatus(newStatus) ==
  /\ IF order = NoRow
     THEN /\ last' = Response("adminUpdateOrderStatus", newStatus, "none", FALSE,
                              "Order not found")
          /\ UNCHANGED order
     ELSE IF order.status = newStatus
     THEN /\ last' = Response("adminUpdateOrderStatus", newStatus, order.status, TRUE, "none")
          /\ UNCHANGED order
     ELSE IF newStatus \notin OrderStatus
     \* productOrder.update refuses a status outside the enum: it throws, and
     \* tryCatchAsync rethrows it as a GraphQLError
     THEN /\ last' = Response("adminUpdateOrderStatus", newStatus, order.status, FALSE,
                              "GraphQLError")
          /\ UNCHANGED order
     ELSE /\ order' = ApplyUpdate(order, OrderUpdateData(order.status, newStatus, now))
          /\ last' = Response("adminUpdateOrderStatus", newStatus, order.status, TRUE, "none")
  /\ UNCHANGED <<now, event, registrations, ordered_products, inflight>>

(* ----------------------- order discounts and quantities --------------- *)

Min(a, b) == IF a < b THEN a ELSE b

Max(a, b) == IF a > b THEN a ELSE b

\* Math.round of the quotient num / den, den > 0: the nearest integer, a
\* half rounded towards +Infinity
MathRound(num, den) == (2 * num + den) \div (2 * den)

\* sum of price * quantity over the items read
Subtotal(items) ==
  SumOver([i \in 1..Len(items) |-> items[i].price * items[i].quantity], Len(items))

\* sum of the item discounts
TotalItemDiscounts(items) ==
  SumOver([i \in 1..Len(items) |-> items[i].discount], Len(items))

\* Math.round(delta * proportion) of the item at index, proportion being
\* item.total / grandTotal, or 1 / length when grandTotal is 0
RoundedShare(items, delta, index) ==
  LET grandTotal == Subtotal(items)
  IN IF grandTotal > 0
     THEN MathRound(delta * items[index].price * items[index].quantity, grandTotal)
     ELSE MathRound(delta, Len(items))

\* itemDelta: the rounded share, and for the last item what is left of delta
\* once the shares of the items before it are taken
ItemDelta(items, delta, index) ==
  IF index = Len(items)
  THEN delta - SumOver([i \in 1..(Len(items) - 1) |-> RoundedShare(items, delta, i)],
                       Len(items) - 1)
  ELSE RoundedShare(items, delta, index)

\* mutant: the new discount is not kept within 0 .. item total
NewDiscounts_NoClamp(items, newTotalDiscount) ==
  LET delta == newTotalDiscount - TotalItemDiscounts(items)
  IN [i \in 1..Len(items) |-> items[i].discount + ItemDelta(items, delta, i)]

\* newDiscounts of adminUpdateOrderDiscount: the current discount plus
\* itemDelta, kept within 0 .. item total
NewDiscounts(items, newTotalDiscount) ==
  LET delta == newTotalDiscount - TotalItemDiscounts(items)
  IN [i \in 1..Len(items) |->
        Max(0, Min(items[i].price * items[i].quantity,
                   items[i].discount + ItemDelta(items, delta, i)))]

\* mutant: the shipping fee is left out of the total
OrderTotals_NoShipping(items, shippingFee) ==
  [subtotal |-> Subtotal(items),
   discount |-> 0,
   total    |-> Max(0, Subtotal(items) - TotalItemDiscounts(items))]

\* productOrder.update({subtotal, discount: 0, total: max(0, newTotal)})
OrderTotals(items, shippingFee) ==
  [subtotal |-> Subtotal(items),
   discount |-> 0,
   total    |-> Max(0, Subtotal(items) + shippingFee - TotalItemDiscounts(items))]

\* the total is overwritten with the amount given; nothing else is written
adminUpdateOrderPrice(newTotal) ==
  /\ IF newTotal < 0
     THEN /\ last' = Response("adminUpdateOrderPrice", newTotal, "none", FALSE,
                              "Price cannot be negative")
          /\ UNCHANGED order
     ELSE IF order = NoRow
     THEN /\ last' = Response("adminUpdateOrderPrice", newTotal, "none", FALSE,
                              "Order not found")
          /\ UNCHANGED order
     ELSE /\ order' = ApplyUpdate(order, [total |-> newTotal])
          /\ last' = Response("adminUpdateOrderPrice", newTotal, "none", TRUE, "none")
  /\ UNCHANGED <<now, event, registrations, ordered_products, inflight>>

adminUpdateOrderDiscount(newTotalDiscount) ==
  /\ LET Fail(error) ==
           /\ last' = Response("adminUpdateOrderDiscount", newTotalDiscount, "none",
                               FALSE, error)
           /\ UNCHANGED <<order, ordered_products>>
     IN
     IF newTotalDiscount < 0 THEN Fail("Discount cannot be negative")
     ELSE IF order = NoRow THEN Fail("Order not found")
     ELSE IF newTotalDiscount > Subtotal(ordered_products)
     THEN Fail("Discount exceeds order subtotal")
     ELSE IF newTotalDiscount - TotalItemDiscounts(ordered_products) = 0
     THEN /\ last' = Response("adminUpdateOrderDiscount", newTotalDiscount, "none",
                              TRUE, "none")
          /\ UNCHANGED <<order, ordered_products>>
     ELSE LET newDiscounts == NewDiscounts(ordered_products, newTotalDiscount)
          IN /\ ordered_products' = [i \in 1..Len(ordered_products) |->
                  [ordered_products[i] EXCEPT !.discount = newDiscounts[i]]]
             /\ order' = ApplyUpdate(order,
                  OrderTotals(ordered_products', order.shipping_fee))
             /\ last' = Response("adminUpdateOrderDiscount", newTotalDiscount, "none",
                                 TRUE, "none")
  /\ UNCHANGED <<now, event, registrations, inflight>>

\* mutant: a discount above the item total is stored
adminUpdateOrderItemDiscount_NoUpperBound(itemId, discount) ==
  /\ LET Fail(error) ==
           /\ last' = Response("adminUpdateOrderItemDiscount", <<itemId, discount>>,
                               "none", FALSE, error)
           /\ UNCHANGED <<order, ordered_products>>
     IN
     IF discount < 0 THEN Fail("Discount cannot be negative")
     ELSE IF itemId \notin 1..Len(ordered_products) THEN Fail("Item not found")
     ELSE /\ ordered_products' = [ordered_products EXCEPT ![itemId].discount = discount]
          /\ order' = ApplyUpdate(order,
               OrderTotals(ordered_products', order.shipping_fee))
          /\ last' = Response("adminUpdateOrderItemDiscount", <<itemId, discount>>,
                              "none", TRUE, "none")
  /\ UNCHANGED <<now, event, registrations, inflight>>

\* an item is named by its position in ordered_products
adminUpdateOrderItemDiscount(itemId, discount) ==
  /\ LET Fail(error) ==
           /\ last' = Response("adminUpdateOrderItemDiscount", <<itemId, discount>>,
                               "none", FALSE, error)
           /\ UNCHANGED <<order, ordered_products>>
     IN
     IF discount < 0 THEN Fail("Discount cannot be negative")
     ELSE IF itemId \notin 1..Len(ordered_products) THEN Fail("Item not found")
     ELSE IF discount > ordered_products[itemId].price * ordered_products[itemId].quantity
     THEN Fail("Discount exceeds item total")
     ELSE /\ ordered_products' = [ordered_products EXCEPT ![itemId].discount = discount]
          /\ order' = ApplyUpdate(order,
               OrderTotals(ordered_products', order.shipping_fee))
          /\ last' = Response("adminUpdateOrderItemDiscount", <<itemId, discount>>,
                              "none", TRUE, "none")
  /\ UNCHANGED <<now, event, registrations, inflight>>

\* mutant: the discount is kept as it is when the quantity changes
adminUpdateOrderItemQuantity_NoClamp(itemId, quantity) ==
  /\ LET Fail(error) ==
           /\ last' = Response("adminUpdateOrderItemQuantity", <<itemId, quantity>>,
                               "none", FALSE, error)
           /\ UNCHANGED <<order, ordered_products>>
     IN
     IF quantity < 1 THEN Fail("Quantity must be at least 1")
     ELSE IF itemId \notin 1..Len(ordered_products) THEN Fail("Item not found")
     ELSE /\ ordered_products' = [ordered_products EXCEPT ![itemId].quantity = quantity]
          /\ order' = ApplyUpdate(order,
               OrderTotals(ordered_products', order.shipping_fee))
          /\ last' = Response("adminUpdateOrderItemQuantity", <<itemId, quantity>>,
                              "none", TRUE, "none")
  /\ UNCHANGED <<now, event, registrations, inflight>>

\* quantity is an Int argument, so Number.isInteger(quantity) holds
adminUpdateOrderItemQuantity(itemId, quantity) ==
  /\ LET Fail(error) ==
           /\ last' = Response("adminUpdateOrderItemQuantity", <<itemId, quantity>>,
                               "none", FALSE, error)
           /\ UNCHANGED <<order, ordered_products>>
     IN
     IF quantity < 1 THEN Fail("Quantity must be at least 1")
     ELSE IF itemId \notin 1..Len(ordered_products) THEN Fail("Item not found")
     ELSE LET item == ordered_products[itemId]
              newItemTotal == item.price * quantity
              adjustedDiscount == Min(item.discount, newItemTotal)
          IN /\ ordered_products' = [ordered_products EXCEPT
                  ![itemId] = [@ EXCEPT !.quantity = quantity,
                                        !.discount = adjustedDiscount]]
             /\ order' = ApplyUpdate(order,
                  OrderTotals(ordered_products', order.shipping_fee))
             /\ last' = Response("adminUpdateOrderItemQuantity", <<itemId, quantity>>,
                                 "none", TRUE, "none")
  /\ UNCHANGED <<now, event, registrations, inflight>>

(* ------- adminUpdateOrderItemDiscount, one database call a step -------- *)

\* the validation, purchasedProductItem.findUnique (the item with its order
\* and the order's items, as read now) and the checks on what was read
itemDiscount_findUnique(itemId, discount) ==
  /\ inflight = Idle
  /\ LET Fail(error) ==
           /\ last' = Response("adminUpdateOrderItemDiscount", <<itemId, discount>>,
                               "none", FALSE, error)
           /\ UNCHANGED inflight
     IN
     IF discount < 0 THEN Fail("Discount cannot be negative")
     ELSE IF itemId \notin 1..Len(ordered_products) THEN Fail("Item not found")
     ELSE IF discount > ordered_products[itemId].price * ordered_products[itemId].quantity
     THEN Fail("Discount exceeds item total")
     ELSE /\ inflight' = [pc |-> "purchasedProductItem.update",
                          itemId |-> itemId,
                          discount |-> discount,
                          shipping_fee |-> order.shipping_fee,
                          ordered_products |-> ordered_products]
          /\ UNCHANGED last
  /\ UNCHANGED <<now, event, registrations, order, ordered_products>>

\* await ctx.prisma.purchasedProductItem.update({data: {discount}})
itemDiscount_itemUpdate ==
  /\ inflight.pc = "purchasedProductItem.update"
  /\ ordered_products' = [ordered_products EXCEPT
                            ![inflight.itemId].discount = inflight.discount]
  /\ inflight' = [inflight EXCEPT !.pc = "productOrder.update"]
  /\ UNCHANGED <<now, event, registrations, order, last>>

\* subtotal and totalItemDiscounts computed from the items findUnique read,
\* with the new discount in place of the item's, then productOrder.update
itemDiscount_orderUpdate ==
  /\ inflight.pc = "productOrder.update"
  /\ LET read == [inflight.ordered_products EXCEPT
                    ![inflight.itemId].discount = inflight.discount]
     IN order' = ApplyUpdate(order, OrderTotals(read, inflight.shipping_fee))
  /\ last' = Response("adminUpdateOrderItemDiscount",
                      <<inflight.itemId, inflight.discount>>, "none", TRUE, "none")
  /\ inflight' = Idle
  /\ UNCHANGED <<now, event, registrations, ordered_products>>

(* -------------- registerForEvent, one database call a step ------------ *)

\* eventRegistration.findUnique on (event_id, user_id): already registered?
register_findUnique(userId, seats) ==
  /\ inflight = Idle
  /\ IF registrations[userId] # NoRow
     THEN /\ last' = Response("registerForEvent", seats, "none", FALSE,
                              "Already registered for this event")
          /\ UNCHANGED inflight
     ELSE /\ inflight' = [pc |-> "event.findUnique", userId |-> userId, seats |-> seats]
          /\ UNCHANGED last
  /\ UNCHANGED <<now, event, registrations, order, ordered_products>>

\* event.findUnique and the availability check on the value read
register_eventFindUnique ==
  /\ inflight.pc = "event.findUnique"
  /\ IF event.available_seats < inflight.seats
     THEN /\ last' = Response("registerForEvent", inflight.seats, "none", FALSE,
                              "Not enough seats available")
          /\ inflight' = Idle
     ELSE /\ inflight' = [inflight EXCEPT !.pc = "$transaction"]
          /\ UNCHANGED last
  /\ UNCHANGED <<now, event, registrations, order, ordered_products>>

\* $transaction([eventRegistration.create, event.update decrement]): the
\* create throws on the unique (event_id, user_id) when the user registered
\* in the meantime, and nothing is written
register_transaction ==
  /\ inflight.pc = "$transaction"
  /\ IF registrations[inflight.userId] # NoRow
     THEN /\ last' = Response("registerForEvent", inflight.seats, "none", FALSE,
                              "GraphQLError")
          /\ UNCHANGED <<event, registrations>>
     ELSE /\ InSeatRange(event.available_seats - inflight.seats)
          /\ registrations' = [registrations EXCEPT ![inflight.userId] =
               [status |-> "PENDING", seats_reserved |-> inflight.seats,
                request_at |-> now, approved_at |-> Null, paid_at |-> Null,
                confirmed_at |-> Null, cancelled_at |-> Null]]
          /\ event' = [event EXCEPT !.available_seats = @ - inflight.seats]
          /\ last' = Response("registerForEvent", inflight.seats, "none", TRUE, "none")
  /\ inflight' = Idle
  /\ UNCHANGED <<now, order, ordered_products>>

(* --------------------------- specifications --------------------------- *)

\* the registrations the admin status requests of SpecSeats name; the other
\* users register, cancel and have their details edited
Admined == {"u1"}

\* requests on the registrations of one event, one after the other, within
\* one clock value
NextSeats ==
  \/ \E u \in Users, s \in 1..MaxSeats : registerForEvent(u, s)
  \/ \E u \in Users, r \in Users : cancelRegistration(u, r)
  \/ \E r \in Admined, s \in EventRegistrationStatus : adminUpdateRegistrationStatus(r, s)
  \/ \E r \in Users, p \in {-1, 0}, d \in {-1, 0}, s \in 0..MaxSeats :
       adminUpdateRegistrationDetails(r, p, d, s)

SpecSeats == Init /\ [][NextSeats]_vars

\* the carts of the status specification
StatusCarts == {<<>>, <<[price |-> 100, quantity |-> 2]>>}

ShippingFees == {50}

NoRegistration == \A u \in Users : registrations[u] = NoRow

\* requests on one registration or on one order, one after the other, as
\* time passes.  Orders and registrations share no row: a behaviour works on
\* the registration first and, once it is cancelled, on the order.
NextStatus ==
  \/ Tick
  \/ \E u \in OneUser : order = NoRow /\ registerForEvent(u, 1)
  \/ \E u \in OneUser : order = NoRow /\ cancelRegistration(u, u)
  \/ \E r \in OneUser, s \in RegistrationStatusStrings :
       order = NoRow /\ adminUpdateRegistrationStatus(r, s)
  \/ \E u \in OneUser, c \in StatusCarts, f \in ShippingFees :
       NoRegistration /\ createOrder(u, c, f)
  \/ \E u \in Users : NoRegistration /\ cancelOrder(u)
  \/ \E s \in OrderStatusStrings : NoRegistration /\ adminUpdateOrderStatus(s)

SpecStatus == Init /\ [][NextStatus]_vars

\* one admin status request served call by call, with the requests of the
\* registration's user served between its calls
NextStatusCalls ==
  \/ \E r \in OneUser, s \in EventRegistrationStatus : adminStatus_findUnique(r, s)
  \/ adminStatus_eventUpdate
  \/ adminStatus_registrationUpdate
  \/ \E u \in OneUser, s \in 1..MaxSeats : registerForEvent(u, s)
  \/ \E u \in OneUser : cancelRegistration(u, u)

SpecStatusCalls == Init /\ [][NextStatusCalls]_vars

\* the carts of the admin specification: two small items whose totals tie,
\* and one item of price 100 bought five times
AdminCarts ==
  {<<[price |-> 1, quantity |-> 2], [price |-> 2, quantity |-> 1]>>,
   <<[price |-> 100, quantity |-> 5]>>}

\* discounts asked for: negative, small, large, above every subtotal
DiscountInputs == (-1..MaxDiscount) \cup {400, 1001}

QuantityInputs == (0..MaxQuantity) \cup {2, 5}

ItemIds == 1..MaxItemId

\* the totals asked for: negative, and one that no order of AdminCarts has
PriceInputs == {-1, 0}

\* the statuses asked for in the admin specification (the status
\* specification asks for all of them)
AdminStatusInputs == {"PAID", "UNKNOWN"}

\* the six admin mutations, with checkout and registration to create the
\* rows they work on, one request after the other within one clock value.
\* Orders and registrations share no row: a behaviour works on the
\* registration first and, once it is cancelled, on the order.
NextAdmin ==
  \/ \E u \in OneUser : order = NoRow /\ registerForEvent(u, 1)
  \/ \E u \in OneUser : order = NoRow /\ cancelRegistration(u, u)
  \/ \E r \in Users, s \in AdminStatusInputs :
       order = NoRow /\ adminUpdateRegistrationStatus(r, s)
  \/ \E r \in Users, p \in {-1, 0}, d \in {-1, 0}, s \in 0..MaxSeats :
       order = NoRow /\ adminUpdateRegistrationDetails(r, p, d, s)
  \/ \E u \in OneUser, c \in AdminCarts, f \in ShippingFees :
       NoRegistration /\ createOrder(u, c, f)
  \/ \E s \in AdminStatusInputs : NoRegistration /\ adminUpdateOrderStatus(s)
  \/ \E t \in PriceInputs : NoRegistration /\ adminUpdateOrderPrice(t)
  \/ \E d \in DiscountInputs : NoRegistration /\ adminUpdateOrderDiscount(d)
  \/ \E i \in ItemIds, d \in DiscountInputs :
       NoRegistration /\ adminUpdateOrderItemDiscount(i, d)
  \/ \E i \in ItemIds, q \in QuantityInputs :
       NoRegistration /\ adminUpdateOrderItemQuantity(i, q)

SpecAdmin == Init /\ [][NextAdmin]_vars

\* the discounts and quantities asked for while requests overlap
OverlapDiscounts == {0, 1, 400}

OverlapQuantities == {1, 5}

\* one item-discount request served call by call, with order-discount and
\* quantity requests on the same order served between its calls
NextMoneyCalls ==
  \/ \E u \in OneUser, c \in AdminCarts, f \in ShippingFees :
       inflight = Idle /\ createOrder(u, c, f)
  \/ \E i \in ItemIds, d \in OverlapDiscounts : itemDiscount_findUnique(i, d)
  \/ itemDiscount_itemUpdate
  \/ itemDiscount_orderUpdate
  \/ \E d \in OverlapDiscounts : adminUpdateOrderDiscount(d)
  \/ \E i \in ItemIds, q \in OverlapQuantities : adminUpdateOrderItemQuantity(i, q)

SpecMoneyCalls == Init /\ [][NextMoneyCalls]_vars

\* one registerForEvent served call by call, with the registrations and
\* cancellations of the users served between its calls
NextRegisterCalls ==
  \/ \E u \in Users, s \in 1..MaxSeats : register_findUnique(u, s)
  \/ register_eventFindUnique
  \/ register_transaction
  \/ \E u \in Users, s \in 1..MaxSeats : registerForEvent(u, s)
  \/ \E u \in Users : cancelRegistration(u, u)

SpecRegisterCalls == Init /\ [][NextRegisterCalls]_vars

(* ------------------------------- claims ------------------------------- *)

\* consumesSeat of the seat inventory rule
ConsumesSeat(status) == status \in {"CONFIRMED", "PAID"}

RECURSIVE HeldBy(_)
\* seats_reserved summed over the registrations of the users in S whose
\* status consumes seats
HeldBy(S) ==
  IF S = {} THEN 0
  ELSE LET u == CHOOSE x \in S : TRUE
       IN (IF registrations[u] # NoRow /\ ConsumesSeat(registrations[u].status)
           THEN registrations[u].seats_reserved ELSE 0) + HeldBy(S \ {u})

\* a status request that found registration r in another status and wrote it
StatusMoved(r) ==
  /\ registrations[r] # NoRow
  /\ registrations'[r] # NoRow
  /\ registrations'[r].status # registrations[r].status

RegForward(currentStatus, newStatus) ==
  /\ IndexOf(REG_MAIN_FLOW, currentStatus) # -1
  /\ IndexOf(REG_MAIN_FLOW, newStatus) > IndexOf(REG_MAIN_FLOW, currentStatus)

OrderForward(currentStatus, newStatus) ==
  /\ IndexOf(ORDER_MAIN_FLOW, currentStatus) # -1
  /\ IndexOf(ORDER_MAIN_FLOW, newStatus) > IndexOf(ORDER_MAIN_FLOW, currentStatus)

\* C1: whatever registerForEvent, cancelRegistration, adminUpdateRegistrationStatus
\* and adminUpdateRegistrationDetails requests were served, the event has
\* 0 <= available_seats <= total_seats.
C1_SeatsWithinBounds ==
  0 <= event.available_seats /\ event.available_seats <= event.total_seats

\* C2: in every reachable state available_seats plus the seats reserved by the
\* CONFIRMED and PAID registrations of the event equals total_seats.
C2_SeatConservation ==
  event.available_seats + HeldBy(Users) = event.total_seats

\* C3: no status request moves a registration from a status that consumes no
\* seat into CONFIRMED while available_seats < seats_reserved: such a request
\* is rejected and leaves the status (and the counter) as they were.
C3_ConfirmRejectedWhenFull ==
  [][\A r \in Users :
       ~(/\ StatusMoved(r)
         /\ ~ConsumesSeat(registrations[r].status)
         /\ registrations'[r].status = "CONFIRMED"
         /\ event.available_seats < registrations[r].seats_reserved)]_vars

\* C4: a status request that moves a registration from PENDING, APPROVED,
\* REJECTED or CANCELLED to CONFIRMED or PAID lowers available_seats by exactly
\* the registration's seats_reserved.
C4_EnteringDeducts ==
  [][\A r \in Users :
       (/\ StatusMoved(r)
        /\ ~ConsumesSeat(registrations[r].status)
        /\ ConsumesSeat(registrations'[r].status))
       => event'.available_seats
            = event.available_seats - registrations[r].seats_reserved]_vars

\* C5: a status request that moves a registration from CONFIRMED or PAID to
\* PENDING, APPROVED, REJECTED or CANCELLED raises available_seats by exactly
\* the registration's seats_reserved.
C5_LeavingReturns ==
  [][\A r \in Users :
       (/\ StatusMoved(r)
        /\ ConsumesSeat(registrations[r].status)
        /\ ~ConsumesSeat(registrations'[r].status))
       => event'.available_seats
            = event.available_seats + registrations[r].seats_reserved]_vars

\* C6: a status request whose source and target status are both in
\* {CONFIRMED, PAID}, or both outside it, leaves available_seats unchanged.
C6_SameClassKeepsSeats ==
  [][\A r \in Users, S \in EventRegistrationStatus :
       (/\ last'.op = "adminUpdateRegistrationStatus"
        /\ registrations[r] # NoRow
        /\ ConsumesSeat(registrations[r].status) = ConsumesSeat(S)
        /\ adminUpdateRegistrationStatus(r, S))
       => event'.available_seats = event.available_seats]_vars

\* a PAID registration was moved to CONFIRMED (both consume seats)
C6_Witness ==
  /\ last.op = "adminUpdateRegistrationStatus"
  /\ last.success
  /\ last.was = "PAID"
  /\ last.arg = "CONFIRMED"
  /\ \E r \in Users : registrations[r] # NoRow /\ registrations[r].status = "CONFIRMED"

\* C7: the seat adjustment and the status write of one status request are one
\* atomic step: in no state has the event been adjusted for a transition
\* whose status is not written to the registration.
C7_SeatsAndStatusTogether ==
  (/\ inflight.pc = "eventRegistration.update"
   /\ SeatAdjustment(inflight.registration.status, inflight.newStatus,
                     inflight.registration.seats_reserved) # 0)
  => /\ registrations[inflight.registrationId] # NoRow
     /\ registrations[inflight.registrationId].status = inflight.newStatus

\* C8: a request for the status the order or the registration already has
\* succeeds and changes nothing: the row (status and every timestamp) and the
\* event's available_seats are as before.
C8_SameStatusIsNoOp ==
  [][/\ \A S \in OrderStatus :
          (/\ last'.op = "adminUpdateOrderStatus"
           /\ order # NoRow
           /\ order.status = S
           /\ adminUpdateOrderStatus(S))
          => (last'.success /\ order' = order)
     /\ \A r \in Users, S \in EventRegistrationStatus :
          (/\ last'.op = "adminUpdateRegistrationStatus"
           /\ registrations[r] # NoRow
           /\ registrations[r].status = S
           /\ adminUpdateRegistrationStatus(r, S))
          => (last'.success /\ registrations' = registrations /\ event' = event)]_vars

\* a same-status request was answered, at a time later than the one the
\* status was entered at
C8_Witness ==
  /\ last.op = "adminUpdateOrderStatus"
  /\ last.success
  /\ last.was = last.arg
  /\ order.status = "SHIPPED"
  /\ order.shipped_at < now

\* C9: a forward main-flow transition from index i to index j > i leaves the
\* timestamp of every main-flow status i+1..j non-null; PENDING -> DELIVERED
\* on the order checkout created leaves all five main-flow timestamps non-null.
C9_ForwardBackfills ==
  [][/\ \A S \in OrderStatus :
          (/\ last'.op = "adminUpdateOrderStatus"
           /\ order # NoRow
           /\ OrderForward(order.status, S)
           /\ adminUpdateOrderStatus(S))
          => /\ \A k \in (IndexOf(ORDER_MAIN_FLOW, order.status) + 1)
                          .. IndexOf(ORDER_MAIN_FLOW, S) :
                  order'[ORDER_STATUS_TIMESTAMP_FIELDS(ORDER_MAIN_FLOW[k + 1])] # Null
             /\ (order.status = "PENDING" /\ S = "DELIVERED")
                => \A k \in 0..4 :
                     order'[ORDER_STATUS_TIMESTAMP_FIELDS(ORDER_MAIN_FLOW[k + 1])] # Null
     /\ \A r \in Users, S \in EventRegistrationStatus :
          (/\ last'.op = "adminUpdateRegistrationStatus"
           /\ registrations[r] # NoRow
           /\ RegForward(registrations[r].status, S)
           /\ adminUpdateRegistrationStatus(r, S))
          => \A k \in (IndexOf(REG_MAIN_FLOW, registrations[r].status) + 1)
                       .. IndexOf(REG_MAIN_FLOW, S) :
               registrations'[r][REG_STATUS_TIMESTAMP_FIELDS(REG_MAIN_FLOW[k + 1])]
                 # Null]_vars

\* the order went from PENDING straight to DELIVERED
C9_Witness ==
  /\ last.op = "adminUpdateOrderStatus"
  /\ last.success
  /\ last.was = "PENDING"
  /\ last.arg = "DELIVERED"
  /\ order.status = "DELIVERED"
  /\ order.shipped_at = order.delivered_at

\* C10: a forward main-flow transition never changes a timestamp that was
\* already non-null before it.
C10_ForwardKeepsSetTimestamps ==
  [][/\ \A S \in OrderStatus :
          (/\ last'.op = "adminUpdateOrderStatus"
           /\ order # NoRow
           /\ OrderForward(order.status, S)
           /\ adminUpdateOrderStatus(S))
          => \A f \in OrderTimestampField : order[f] # Null => order'[f] = order[f]
     /\ \A r \in Users, S \in EventRegistrationStatus :
          (/\ last'.op = "adminUpdateRegistrationStatus"
           /\ registrations[r] # NoRow
           /\ RegForward(registrations[r].status, S)
           /\ adminUpdateRegistrationStatus(r, S))
          => \A f \in RegTimestampField :
               registrations[r][f] # Null
                 => registrations'[r][f] = registrations[r][f]]_vars

\* the main-flow and the terminal timestamp columns
OrderMainFields ==
  {"request_at", "approved_at", "paid_at", "shipped_at", "delivered_at"}

OrderTerminalFields == {"cancelled_at", "returned_at", "refunded_at"}

RegMainFields == {"request_at", "approved_at", "paid_at", "confirmed_at"}

OrderTerminalStatus == {"CANCELLED", "RETURNED", "REFUNDED"}

RegTerminalStatus == {"REJECTED", "CANCELLED"}

OrderBackward(currentStatus, newStatus) ==
  /\ IndexOf(ORDER_MAIN_FLOW, newStatus) # -1
  /\ IndexOf(ORDER_MAIN_FLOW, newStatus) < IndexOf(ORDER_MAIN_FLOW, currentStatus)

\* C11: a backward main-flow transition of an order sets the timestamps of
\* the statuses after the new status to null and leaves the timestamps of the
\* statuses up to and including the new status as they were (DELIVERED ->
\* PROCESSING: shipped_at, delivered_at null; request_at, approved_at kept).
C11_BackwardClearsLaterKeepsEarlier ==
  [][\A S \in OrderStatus :
       (/\ last'.op = "adminUpdateOrderStatus"
        /\ order # NoRow
        /\ OrderBackward(order.status, S)
        /\ adminUpdateOrderStatus(S))
       => \A k \in 0..4 :
            LET f == ORDER_STATUS_TIMESTAMP_FIELDS(ORDER_MAIN_FLOW[k + 1])
            IN IF k > IndexOf(ORDER_MAIN_FLOW, S)
               THEN order'[f] = Null
               ELSE order'[f] = order[f]]_vars

\* C12: a transition to a terminal status (order: CANCELLED, RETURNED,
\* REFUNDED; registration: REJECTED, CANCELLED) from any other status writes
\* the time of the request to that status's own timestamp, when it has one,
\* and changes no main-flow timestamp.
C12_TerminalSetsOwnKeepsMainFlow ==
  [][/\ \A S \in OrderTerminalStatus :
          (/\ last'.op = "adminUpdateOrderStatus"
           /\ order # NoRow
           /\ order.status # S
           /\ adminUpdateOrderStatus(S))
          => /\ order'.status = S
             /\ order'[ORDER_STATUS_TIMESTAMP_FIELDS(S)] = now
             /\ \A f \in OrderMainFields : order'[f] = order[f]
     /\ \A r \in Users, S \in RegTerminalStatus :
          (/\ last'.op = "adminUpdateRegistrationStatus"
           /\ registrations[r] # NoRow
           /\ registrations[r].status # S
           /\ adminUpdateRegistrationStatus(r, S))
          => /\ registrations'[r].status = S
             /\ S = "CANCELLED" => registrations'[r].cancelled_at = now
             /\ \A f \in RegMainFields :
                  registrations'[r][f] = registrations[r][f]]_vars

\* a RETURNED order, delivered earlier, was moved to CANCELLED
C12_Witness ==
  /\ last.op = "adminUpdateOrderStatus"
  /\ last.success
  /\ last.was = "RETURNED"
  /\ last.arg = "CANCELLED"
  /\ order.status = "CANCELLED"
  /\ order.cancelled_at = now
  /\ order.delivered_at # Null
  /\ order.delivered_at < now

\* C13: after a successful transition from a terminal status to a main-flow
\* status every terminal timestamp of the row is null (order: cancelled_at,
\* returned_at, refunded_at; registration: cancelled_at).
C13_ReturnToFlowClearsTerminal ==
  [][/\ \A S \in OrderStatus :
          (/\ last'.op = "adminUpdateOrderStatus"
           /\ order # NoRow
           /\ order.status \in OrderTerminalStatus
           /\ IndexOf(ORDER_MAIN_FLOW, S) # -1
           /\ adminUpdateOrderStatus(S))
          => \A f \in OrderTerminalFields : order'[f] = Null
     /\ \A r \in Users, S \in EventRegistrationStatus :
          (/\ last'.op = "adminUpdateRegistrationStatus"
           /\ registrations[r] # NoRow
           /\ registrations[r].status \in RegTerminalStatus
           /\ IndexOf(REG_MAIN_FLOW, S) # -1
           /\ adminUpdateRegistrationStatus(r, S))
          => registrations'[r].cancelled_at = Null]_vars

\* C14: after a successful transition to a different status that has a
\* timestamp column (every order status; every registration status but
\* REJECTED) that column holds the time of the transition.
C14_NewStatusTimestampIsNow ==
  [][/\ \A S \in OrderStatus :
          (/\ last'.op = "adminUpdateOrderStatus"
           /\ order # NoRow
           /\ order.status # S
           /\ adminUpdateOrderStatus(S))
          => order'[ORDER_STATUS_TIMESTAMP_FIELDS(S)] = now
     /\ \A r \in Users, S \in EventRegistrationStatus \ {"REJECTED"} :
          (/\ last'.op = "adminUpdateRegistrationStatus"
           /\ registrations[r] # NoRow
           /\ registrations[r].status # S
           /\ adminUpdateRegistrationStatus(r, S))
          => registrations'[r][REG_STATUS_TIMESTAMP_FIELDS(S)] = now]_vars

\* C15: whenever the order is in the main-flow status of index i, the
\* timestamps of the main-flow statuses of index > i and the three terminal
\* timestamps are null (so PROCESSING -> CANCELLED -> PROCESSING ends with
\* cancelled_at, shipped_at and delivered_at null).
C15_NoTimestampAheadOfStatus ==
  (order # NoRow /\ IndexOf(ORDER_MAIN_FLOW, order.status) # -1)
  => /\ \A k \in 0..4 :
          k > IndexOf(ORDER_MAIN_FLOW, order.status)
          => order[ORDER_STATUS_TIMESTAMP_FIELDS(ORDER_MAIN_FLOW[k + 1])] = Null
     /\ \A f \in OrderTerminalFields : order[f] = Null

\* a cancelled order was put back to PROCESSING at a later time
C15_Witness ==
  /\ last.op = "adminUpdateOrderStatus"
  /\ last.success
  /\ last.was = "CANCELLED"
  /\ last.arg = "PROCESSING"
  /\ order.status = "PROCESSING"
  /\ order.request_at < now

\* C16: a status request (order or registration) whose status string is no
\* member of the enumeration is answered with the structured result
\* {success: false, error: message}, never with a thrown error, and changes
\* no stored field.
C16_UnknownStatusIsStructuredError ==
  [][/\ \A S \in OrderStatusStrings \ OrderStatus :
          (last'.op = "adminUpdateOrderStatus" /\ adminUpdateOrderStatus(S))
          => /\ ~last'.success
             /\ last'.error # "GraphQLError"
             /\ order' = order
     /\ \A r \in Users, S \in RegistrationStatusStrings \ EventRegistrationStatus :
          (last'.op = "adminUpdateRegistrationStatus"
           /\ adminUpdateRegistrationStatus(r, S))
          => /\ ~last'.success
             /\ last'.error # "GraphQLError"
             /\ registrations' = registrations
             /\ event' = event]_vars

\* no row of the database is written
NoWrite == UNCHANGED <<event, registrations, order, ordered_products>>

NotFound(error) == ~last'.success /\ last'.error = error /\ NoWrite

\* C17, as stated: each of the six admin operations, called with an id that
\* matches no stored order, item or registration, returns {success: false,
\* error: "... not found"} and writes nothing, whatever its other arguments.
C17_UnknownIdIsNotFound ==
  [][/\ \A S \in AdminStatusInputs :
          (/\ last'.op = "adminUpdateOrderStatus"
           /\ order = NoRow
           /\ adminUpdateOrderStatus(S)) => NotFound("Order not found")
     /\ \A d \in DiscountInputs :
          (/\ last'.op = "adminUpdateOrderDiscount"
           /\ last'.arg = d
           /\ order = NoRow
           /\ adminUpdateOrderDiscount(d)) => NotFound("Order not found")
     /\ \A i \in ItemIds, d \in DiscountInputs :
          (/\ last'.op = "adminUpdateOrderItemDiscount"
           /\ last'.arg = <<i, d>>
           /\ i \notin 1..Len(ordered_products)
           /\ adminUpdateOrderItemDiscount(i, d)) => NotFound("Item not found")
     /\ \A i \in ItemIds, q \in QuantityInputs :
          (/\ last'.op = "adminUpdateOrderItemQuantity"
           /\ last'.arg = <<i, q>>
           /\ i \notin 1..Len(ordered_products)
           /\ adminUpdateOrderItemQuantity(i, q)) => NotFound("Item not found")
     /\ \A r \in Users, S \in AdminStatusInputs :
          (/\ last'.op = "adminUpdateRegistrationStatus"
           /\ registrations[r] = NoRow
           /\ adminUpdateRegistrationStatus(r, S)) => NotFound("Registration not found")
     /\ \A r \in Users, p \in {-1, 0}, d \in {-1, 0}, n \in 0..MaxSeats :
          (/\ last'.op = "adminUpdateRegistrationDetails"
           /\ registrations[r] = NoRow
           /\ adminUpdateRegistrationDetails(r, p, d, n))
          => NotFound("Registration not found")]_vars

\* C17, amended: each of the six admin operations, called with an id that
\* matches no stored order, item or registration and with other arguments
\* that pass the handler's validation (discount >= 0, price >= 0,
\* quantity >= 1, seats >= 1), returns {success: false, error: "... not
\* found"}; with or without valid arguments it fails and writes nothing.
C17_UnknownIdIsNotFoundWhenValid ==
  [][/\ \A S \in AdminStatusInputs :
          (/\ last'.op = "adminUpdateOrderStatus"
           /\ order = NoRow
           /\ adminUpdateOrderStatus(S)) => NotFound("Order not found")
     /\ \A d \in DiscountInputs :
          (/\ last'.op = "adminUpdateOrderDiscount"
           /\ last'.arg = d
           /\ order = NoRow
           /\ adminUpdateOrderDiscount(d))
          => /\ ~last'.success
             /\ NoWrite
             /\ d >= 0 => NotFound("Order not found")
     /\ \A i \in ItemIds, d \in DiscountInputs :
          (/\ last'.op = "adminUpdateOrderItemDiscount"
           /\ last'.arg = <<i, d>>
           /\ i \notin 1..Len(ordered_products)
           /\ adminUpdateOrderItemDiscount(i, d))
          => /\ ~last'.success
             /\ NoWrite
             /\ d >= 0 => NotFound("Item not found")
     /\ \A i \in ItemIds, q \in QuantityInputs :
          (/\ last'.op = "adminUpdateOrderItemQuantity"
           /\ last'.arg = <<i, q>>
           /\ i \notin 1..Len(ordered_products)
           /\ adminUpdateOrderItemQuantity(i, q))
          => /\ ~last'.success
             /\ NoWrite
             /\ q >= 1 => NotFound("Item not found")
     /\ \A r \in Users, S \in AdminStatusInputs :
          (/\ last'.op = "adminUpdateRegistrationStatus"
           /\ registrations[r] = NoRow
           /\ adminUpdateRegistrationStatus(r, S)) => NotFound("Registration not found")
     /\ \A r \in Users, p \in {-1, 0}, d \in {-1, 0}, n \in 0..MaxSeats :
          (/\ last'.op = "adminUpdateRegistrationDetails"
           /\ registrations[r] = NoRow
           /\ adminUpdateRegistrationDetails(r, p, d, n))
          => /\ ~last'.success
             /\ NoWrite
             /\ (p >= 0 /\ d >= 0 /\ n >= 1) => NotFound("Registration not found")]_vars

\* an item id beyond the items of the stored order was asked for
C17_Witness ==
  /\ last.op = "adminUpdateOrderItemDiscount"
  /\ ~last.success
  /\ last.error = "Item not found"
  /\ order # NoRow
  /\ Len(ordered_products) >= 1
  /\ last.arg[1] > Len(ordered_products)

\* C18: for every target with 0 <= target <= subtotal, a successful
\* adminUpdateOrderDiscount(target) leaves the item discounts summing to
\* exactly target, whatever they were before.
C18_DistributionIsExact ==
  [][\A d \in DiscountInputs :
       (/\ last'.op = "adminUpdateOrderDiscount"
        /\ last'.arg = d
        /\ order # NoRow
        /\ 0 <= d
        /\ d <= Subtotal(ordered_products)
        /\ adminUpdateOrderDiscount(d))
       => (last'.success /\ TotalItemDiscounts(ordered_products') = d)]_vars

\* C19: adminUpdateOrderDiscount with a target above the subtotal or
\* negative, and adminUpdateOrderItemDiscount with a discount above the
\* item's price * quantity or negative, fail and leave every item's
\* discount and the order's subtotal, discount and total unchanged.
C19_OutOfRangeDiscountRejected ==
  [][/\ \A d \in DiscountInputs :
          (/\ last'.op = "adminUpdateOrderDiscount"
           /\ last'.arg = d
           /\ (d < 0 \/ d > Subtotal(ordered_products))
           /\ adminUpdateOrderDiscount(d))
          => (~last'.success /\ ordered_products' = ordered_products /\ order' = order)
     /\ \A i \in ItemIds, d \in DiscountInputs :
          (/\ last'.op = "adminUpdateOrderItemDiscount"
           /\ last'.arg = <<i, d>>
           /\ \/ d < 0
              \/ /\ i \in 1..Len(ordered_products)
                 /\ d > ordered_products[i].price * ordered_products[i].quantity
           /\ adminUpdateOrderItemDiscount(i, d))
          => (~last'.success /\ ordered_products' = ordered_products
              /\ order' = order)]_vars

\* a discount above the item total was refused on an order that carries a
\* discount already
C19_Witness ==
  /\ last.op = "adminUpdateOrderItemDiscount"
  /\ ~last.success
  /\ last.error = "Discount exceeds item total"
  /\ order # NoRow
  /\ TotalItemDiscounts(ordered_products) > 0
  /\ order.total = order.subtotal + order.shipping_fee
                     - TotalItemDiscounts(ordered_products)

\* C20: adminUpdateOrderItemQuantity with q >= 1 stores quantity q and the
\* discount min(old discount, price * q) (price 100, quantity 5, discount 400,
\* reduced to quantity 2: discount 200; a discount within the new item total
\* is kept); with q < 1 it fails and writes nothing.
C20_QuantityClampsDiscount ==
  [][\A i \in ItemIds, q \in QuantityInputs :
       (/\ last'.op = "adminUpdateOrderItemQuantity"
        /\ last'.arg = <<i, q>>
        /\ adminUpdateOrderItemQuantity(i, q))
       => /\ q < 1 => (~last'.success /\ NoWrite)
          /\ (q >= 1 /\ i \in 1..Len(ordered_products))
             => /\ last'.success
                /\ ordered_products'[i].quantity = q
                /\ ordered_products'[i].price = ordered_products[i].price
                /\ ordered_products'[i].discount
                     = IF ordered_products[i].discount <= ordered_products[i].price * q
                       THEN ordered_products[i].discount
                       ELSE ordered_products[i].price * q
                /\ (ordered_products[i] = [quantity |-> 5, price |-> 100,
                                           discount |-> 400] /\ q = 2)
                   => ordered_products'[i].discount = 200]_vars

\* the item of price 100 and quantity 5 with discount 400 was reduced to
\* quantity 2
C20_Witness ==
  /\ last.op = "adminUpdateOrderItemQuantity"
  /\ last.success
  /\ last.arg = <<1, 2>>
  /\ ordered_products[1] = [quantity |-> 2, price |-> 100, discount |-> 200]

\* C21: after any sequence of createOrder, adminUpdateOrderDiscount,
\* adminUpdateOrderItemDiscount and adminUpdateOrderItemQuantity requests
\* served one after the other, every line item has
\* 0 <= discount <= price * quantity.
C21_ItemDiscountWithinItemTotal ==
  \A i \in 1..Len(ordered_products) :
    /\ 0 <= ordered_products[i].discount
    /\ ordered_products[i].discount
         <= ordered_products[i].price * ordered_products[i].quantity

\* an order discount left one item discounted in full and the other not at all
C21_Witness ==
  /\ last.op = "adminUpdateOrderDiscount"
  /\ last.success
  /\ Len(ordered_products) = 2
  /\ ordered_products[1].discount
       = ordered_products[1].price * ordered_products[1].quantity
  /\ ordered_products[2].discount = 0

\* the three mutations that recompute the order's totals
IsRecompute(op) ==
  op \in {"adminUpdateOrderDiscount", "adminUpdateOrderItemDiscount",
          "adminUpdateOrderItemQuantity"}

\* C22: after each successful adminUpdateOrderDiscount (delta # 0),
\* adminUpdateOrderItemDiscount or adminUpdateOrderItemQuantity the stored
\* subtotal is the sum of price * quantity over the stored items, the
\* order-level discount is 0 and the stored total is
\* max(0, subtotal + shipping_fee - sum of the stored item discounts).
C22_TotalsRecomputed ==
  [][(/\ IsRecompute(last'.op)
      /\ last'.success
      /\ last'.op = "adminUpdateOrderDiscount"
           => last'.arg # TotalItemDiscounts(ordered_products))
     => LET sub  == SumOver([i \in 1..Len(ordered_products') |->
                       ordered_products'[i].price * ordered_products'[i].quantity],
                     Len(ordered_products'))
            disc == SumOver([i \in 1..Len(ordered_products') |->
                       ordered_products'[i].discount], Len(ordered_products'))
        IN /\ order'.subtotal = sub
           /\ order'.discount = 0
           /\ order'.total = (IF sub + order'.shipping_fee - disc > 0
                              THEN sub + order'.shipping_fee - disc ELSE 0)]_vars

\* a quantity edit changed the subtotal of a discounted order
C22_Witness ==
  /\ last.op = "adminUpdateOrderItemQuantity"
  /\ last.success
  /\ TotalItemDiscounts(ordered_products) > 0
  /\ order.subtotal # 4
  /\ order.subtotal # 500
  /\ order.total = order.subtotal + order.shipping_fee
                     - TotalItemDiscounts(ordered_products)

\* C23: in every reachable state of an order, total = subtotal + shipping_fee
\* - discount and total >= 0, discount being the order-level discount plus
\* the sum of the item discounts.
C23_TotalIsSubtotalPlusShippingMinusDiscount ==
  order # NoRow
  => /\ order.total = order.subtotal + order.shipping_fee
                        - (order.discount + TotalItemDiscounts(ordered_products))
     /\ order.total >= 0

\* C24: when discount and quantity edits on one order overlap, no update is
\* lost: once all of them have completed, the order's total is
\* max(0, subtotal + shipping_fee - sum of the stored item discounts),
\* subtotal being the sum of price * quantity of the stored items, and every
\* item has discount <= price * quantity.
C24_NoLostUpdate ==
  (inflight = Idle /\ order # NoRow)
  => /\ order.total = Max(0, Subtotal(ordered_products) + order.shipping_fee
                               - TotalItemDiscounts(ordered_products))
     /\ \A i \in 1..Len(ordered_products) :
          ordered_products[i].discount
            <= ordered_products[i].price * ordered_products[i].quantity

\* C25: adminUpdateRegistrationDetails on a CONFIRMED or PAID registration
\* changes available_seats by exactly -(newSeats - oldSeats); when
\* newSeats - oldSeats > available_seats it returns {success: false,
\* error: "Not enough available seats"} and changes neither the event nor
\* the registration.
C25_DetailsMoveSeatsByDifference ==
  [][\A r \in Users, n \in 1..MaxSeats :
       (/\ last'.op = "adminUpdateRegistrationDetails"
        /\ registrations[r] # NoRow
        /\ registrations[r].status \in {"CONFIRMED", "PAID"}
        /\ adminUpdateRegistrationDetails(r, 0, 0, n))
       => LET seatsDiff == n - registrations[r].seats_reserved
          IN IF seatsDiff > event.available_seats
             THEN /\ ~last'.success
                  /\ last'.error = "Not enough available seats"
                  /\ event' = event
                  /\ registrations' = registrations
             ELSE /\ last'.success
                  /\ event'.available_seats = event.available_seats - seatsDiff
                  /\ registrations'[r].seats_reserved = n]_vars

\* C26: an order or a registration that was created is never removed: every
\* request leaves the stored rows stored (a cancellation is a status).
C26_RowsAreNeverDeleted ==
  [][/\ order # NoRow => order' # NoRow
     /\ \A r \in Users : registrations[r] # NoRow => registrations'[r] # NoRow]_vars

\* C27: whenever the order is in the main-flow status of index i, the
\* timestamps of the main-flow statuses of index <= i are non-null, also
\* after a detour through a terminal status (PENDING -> CANCELLED ->
\* DELIVERED).
C27_TimestampsUpToStatusAreSet ==
  (order # NoRow /\ IndexOf(ORDER_MAIN_FLOW, order.status) # -1)
  => \A k \in 0..4 :
       k <= IndexOf(ORDER_MAIN_FLOW, order.status)
       => order[ORDER_STATUS_TIMESTAMP_FIELDS(ORDER_MAIN_FLOW[k + 1])] # Null

\* C28: whenever a registration is in the main-flow status of index i, the
\* timestamps of the main-flow statuses of index > i are null, also after a
\* return from CANCELLED or REJECTED (CONFIRMED -> CANCELLED -> PENDING
\* leaves approved_at, paid_at, confirmed_at null).
C28_NoRegistrationTimestampAheadOfStatus ==
  \A r \in Users :
    (registrations[r] # NoRow /\ IndexOf(REG_MAIN_FLOW, registrations[r].status) # -1)
    => \A k \in 0..3 :
         k > IndexOf(REG_MAIN_FLOW, registrations[r].status)
         => registrations[r][REG_STATUS_TIMESTAMP_FIELDS(REG_MAIN_FLOW[k + 1])] = Null

\* C29: a registerForEvent followed by the cancelRegistration of that
\* registration, with any status transitions and seat edits on it in between,
\* puts available_seats back to its value before the registerForEvent: with
\* one registering user, the event has all its seats whenever no registration
\* is stored.
C29_RegisterCancelRestoresSeats ==
  NoRegistration => event.available_seats = event.total_seats

\* C30: two registerForEvent requests of different users that overlap cannot
\* both succeed when they ask for more seats than are available: the
\* availability check and the decrement never interleave so as to drive
\* available_seats below 0.
C30_OverlappingRegistrationsKeepSeatsNonNegative ==
  event.available_seats >= 0

====
